---- MODULE Spec2Model ----
(***************************************************************************)
(* A model of the nom parser combinators (src/macros.rs) and of the        *)
(* streaming driver with its data producers (src/producer.rs).             *)
(*                                                                         *)
(* A parser is a value of the set of parser descriptors below; Apply runs  *)
(* it on a byte sequence and gives an IResult.  The combinators that loop  *)
(* or that call their sub-parsers one after the other are state machines   *)
(* taking one step per sub-parser application, so that the order and the   *)
(* arguments of the applications are part of the behaviour.                *)
(***************************************************************************)
EXTENDS Integers, Sequences, FiniteSets, TLC

VARIABLES
  op,            \* the generated function that is running
  cfg,           \* the arguments of the macro that generated it
  input,         \* the input the function was called with
  pc,            \* "start", "loop" or "done"
  cur,           \* the current input of a step: $i (alt, chain), i1 (length_value)
  idx,           \* position of the next branch or step (alt, chain)
  begin,         \* many0, many1, length_value: let mut begin
  remaining,     \* many0, many1, length_value: let mut remaining
  res,           \* many0, many1, length_value: let mut res; chain: bound fields
  nb,            \* length_value: the count the count parser returned
  length_token,  \* length_value: bytes the count parser consumed
  calls,         \* the sub-parser applications made so far, in order
  result,        \* the IResult returned, NoResult before the return
  producer,      \* pusher: the Producer behind `producer: &mut Producer`
  acc,           \* pusher: let mut acc
  state,         \* pusher: the ProducerState of the last produce()
  verdict,       \* pusher: the IResult of the last $f(v2.as_slice())
  iter,          \* pusher: turns of the loop started so far
  chunks,        \* pusher: the slices pushed onto acc so far, in order
  discarded,     \* pusher: the bytes Done verdicts removed from acc so far
  produced,      \* producer: the states produce() gave since the last seek
  sought         \* producer: the last seek(), NoSeek before the first one

pvars == <<producer, acc, state, verdict, iter, chunks, discarded, produced,
           sought>>

vars == <<op, cfg, input, pc, cur, idx, begin, remaining, res, nb,
          length_token, calls, result, producer, acc, state, verdict, iter,
          chunks, discarded, produced, sought>>

----------------------------------------------------------------------------
(* Bounds of the model.                                                    *)

MaxByte == 2
MaxLen == 3
MaxTag == 2

Byte == 0..MaxByte

SeqsUpTo(n) == UNION {[1..m -> Byte] : m \in 0..n}

Inputs == SeqsUpTo(MaxLen)

----------------------------------------------------------------------------
(* Slices: &s[a..b] and &s[a..] with Rust's zero-based half-open ranges.   *)

Slice(s, a, b) == SubSeq(s, a + 1, b)

SliceFrom(s, a) == SubSeq(s, a + 1, Len(s))

(* internal::IResult and internal::Needed.  The `as u32` casts of the      *)
(* source are the identity on every length the bounds allow.               *)

Size(n) == [k |-> "Size", n |-> n]

Unknown == [k |-> "Unknown"]

Done(i, o) == [t |-> "Done", rem |-> i, out |-> o]

Error(e) == [t |-> "Error", code |-> e]

Incomplete(n) == [t |-> "Incomplete", needed |-> n]

NoResult == [t |-> "None"]

(* producer::ProducerState.                                                *)

Eof(v) == [s |-> "Eof", v |-> v]

Continue == [s |-> "Continue"]

Data(v) == [s |-> "Data", v |-> v]

ProducerError(e) == [s |-> "ProducerError", code |-> e]

NoState == [s |-> "None"]

NoProducer == [kind |-> "none"]

NoSeek == [position |-> "none"]

(* No pusher is running.                                                   *)
NoPusher ==
  /\ producer = NoProducer /\ acc = <<>> /\ state = NoState
  /\ verdict = NoResult /\ iter = 0 /\ chunks = <<>> /\ discarded = <<>>
  /\ produced = <<>> /\ sought = NoSeek

----------------------------------------------------------------------------
(* tag!: the function generated for the expected bytes `expected`.         *)

tag_ge(expected, i) ==
  IF Len(expected) >= Len(i)
    THEN Incomplete(Size(Len(expected)))
    ELSE IF Slice(i, 0, Len(expected)) = expected
           THEN Done(SliceFrom(i, Len(expected)), Slice(i, 0, Len(expected)))
           ELSE Error(0)

tag(expected, i) ==
  IF Len(expected) > Len(i)
    THEN Incomplete(Size(Len(expected)))
    ELSE IF Slice(i, 0, Len(expected)) = expected
           THEN Done(SliceFrom(i, Len(expected)), Slice(i, 0, Len(expected)))
           ELSE Error(0)

----------------------------------------------------------------------------
(* take!: the function generated for the byte count `count`.               *)

take_le(count, i) ==
  IF Len(i) <= count
    THEN Incomplete(Size(count))
    ELSE Done(SliceFrom(i, count), Slice(i, 0, count))

take(count, i) ==
  IF Len(i) < count
    THEN Incomplete(Size(count))
    ELSE Done(SliceFrom(i, count), Slice(i, 0, count))

(* nom::be_u8 and nom::be_u16, the parsers tests::length_value_test gives  *)
(* to length_value!: one byte, and two bytes read as a big-endian number.  *)

be_u8(i) ==
  IF Len(i) < 1 THEN Incomplete(Size(1)) ELSE Done(SliceFrom(i, 1), i[1])

be_u16(i) ==
  IF Len(i) < 2
    THEN Incomplete(Size(2))
    ELSE Done(SliceFrom(i, 2), i[1] * 256 + i[2])

(* A parser of `count` bytes that has no estimate to give when they are    *)
(* not there: the element parser of the Incomplete(Needed::Unknown) arms.  *)

take_unknown(count, i) ==
  IF Len(i) < count
    THEN Incomplete(Unknown)
    ELSE Done(SliceFrom(i, count), Slice(i, 0, count))

(* is_a!: the function generated for the bytes `bytes` of $arr; the loop   *)
(* `for idx in 0..input.len()` from ix on.                                 *)

RECURSIVE is_a_loop(_, _, _)
is_a_loop(bytes, i, ix) ==
  IF ix >= Len(i) THEN Done(<<>>, i)
  ELSE IF ~(\E j \in 1..Len(bytes) : i[ix + 1] = bytes[j])
    THEN Done(SliceFrom(i, ix), Slice(i, 0, ix))
  ELSE is_a_loop(bytes, i, ix + 1)

is_a(bytes, i) == is_a_loop(bytes, i, 0)

(* opt!: r is the result of $f(input).  Option values are Some(o) and      *)
(* None.                                                                   *)

Some(o) == [b |-> "some", v |-> o]

None == [b |-> "none"]

opt(r, i) ==
  CASE r.t = "Done" -> Done(r.rem, Some(r.out))
    [] r.t = "Error" -> Done(i, None)
    [] r.t = "Incomplete" -> Incomplete(r.needed)

(* The parsers the tests of macros.rs define by hand.                      *)

work(i) == Done(<<>>, i)

dont_work(i) == Error(3)

work2(i) == Done(i, <<>>)

ret_int(n, i) == Done(i, n)

----------------------------------------------------------------------------
(* Parser descriptors: the functions a combinator macro can be given.      *)

TagP(e) == [k |-> "tag", e |-> e]

TakeP(n) == [k |-> "take", n |-> n]

Work == [k |-> "work"]

DontWork == [k |-> "dont_work"]

Work2 == [k |-> "work2"]

RetInt(n) == [k |-> "ret_int", n |-> n]

BeU8 == [k |-> "be_u8"]

BeU16 == [k |-> "be_u16"]

TakeUnknown(n) == [k |-> "take_unknown", n |-> n]

IsA(bytes) == [k |-> "is_a", bytes |-> bytes]

OptTag(e) == [k |-> "opt_tag", e |-> e]

Apply(p, i) ==
  CASE p.k = "tag" -> tag(p.e, i)
    [] p.k = "take" -> take(p.n, i)
    [] p.k = "work" -> work(i)
    [] p.k = "dont_work" -> dont_work(i)
    [] p.k = "work2" -> work2(i)
    [] p.k = "ret_int" -> ret_int(p.n, i)
    [] p.k = "be_u8" -> be_u8(i)
    [] p.k = "be_u16" -> be_u16(i)
    [] p.k = "take_unknown" -> take_unknown(p.n, i)
    [] p.k = "is_a" -> is_a(p.bytes, i)
    [] p.k = "opt_tag" -> opt(tag(p.e, i), i)

(* One recorded application of a sub-parser: which one, on what, giving    *)
(* what.                                                                   *)

Call(p, i, r) == [p |-> p, i |-> i, r |-> r]

SubParsers == {TagP(<<0>>), TagP(<<0, 1>>), TakeP(1), DontWork, Work2}

----------------------------------------------------------------------------
(* The tag parser on its own.                                              *)

Idle ==
  /\ cur = <<>> /\ idx = 0 /\ begin = 0 /\ remaining = 0 /\ res = <<>>
  /\ nb = 0 /\ length_token = 0 /\ calls = <<>> /\ result = NoResult

InitTag ==
  /\ NoPusher
  /\ op = "tag"
  /\ cfg \in {TagP(e) : e \in SeqsUpTo(MaxTag)}
  /\ input \in Inputs
  /\ pc = "start"
  /\ Idle

CallTag ==
  /\ UNCHANGED pvars
  /\ op = "tag" /\ pc = "start"
  /\ result' = tag(cfg.e, input)
  /\ pc' = "done"
  /\ UNCHANGED <<op, cfg, input, cur, idx, begin, remaining, res, nb,
                 length_token, calls>>

NextTag == CallTag

SpecTag == InitTag /\ [][NextTag]_vars

----------------------------------------------------------------------------
(* C1: for every expected sequence E and input I, tag returns              *)
(* Incomplete(Size(len(E))) when I is shorter than E, Done(I[len(E)..], E) *)
(* when I is long enough and starts with E, and Error in every other case. *)

IsPrefix(e, i) == Len(e) <= Len(i) /\ \A j \in 1..Len(e) : i[j] = e[j]

C1_TagContract ==
  (op = "tag" /\ pc = "done") =>
     LET E == cfg.e
         I == input
     IN  /\ Len(I) < Len(E) => result = Incomplete(Size(Len(E)))
         /\ IsPrefix(E, I) =>
              result = Done([j \in 1..(Len(I) - Len(E)) |-> I[Len(E) + j]], E)
         /\ (Len(I) >= Len(E) /\ ~IsPrefix(E, I)) => result.t = "Error"

C1_Witness ==
  /\ op = "tag" /\ pc = "done"
  /\ Len(cfg.e) = 2 /\ Len(input) = 2 /\ result.t = "Done"

----------------------------------------------------------------------------
(* alt! / alt_parser!: the branches cfg.bs are tried in order on `input`.  *)
(* One step is one arm of alt_parser!, the application of branch idx and   *)
(* the match on its result; the arm of the last branch expands             *)
(* alt_parser!($i), which is Error(1).                                     *)

MaxBranches == 3

Ret(v) == [ret |-> TRUE, v |-> v]

Go == [ret |-> FALSE]

alt_parser_keep(r, more) ==
  CASE r.t = "Done" -> Ret(Done(r.rem, r.out))
    [] r.t = "Incomplete" -> Ret(Incomplete(r.needed))
    [] r.t = "Error" -> IF more THEN Go ELSE Ret(Error(1))

alt_parser_code(r, more) ==
  CASE r.t = "Done" -> Ret(Done(r.rem, r.out))
    [] r.t = "Incomplete" -> IF more THEN Go ELSE Ret(Error(1))
    [] r.t = "Error" -> IF more THEN Go ELSE Ret(Error(r.code))

alt_parser(r, more) ==
  CASE r.t = "Done" -> Ret(Done(r.rem, r.out))
    [] r.t = "Incomplete" -> IF more THEN Go ELSE Ret(Error(1))
    [] r.t = "Error" -> IF more THEN Go ELSE Ret(Error(1))

InitAlt ==
  /\ NoPusher
  /\ op = "alt"
  /\ \E n \in 1..MaxBranches : cfg \in [bs : [1..n -> SubParsers]]
  /\ input \in Inputs
  /\ pc = "loop"
  /\ cur = input /\ idx = 1 /\ begin = 0 /\ remaining = 0 /\ res = <<>>
  /\ nb = 0 /\ length_token = 0 /\ calls = <<>> /\ result = NoResult

AltStep ==
  /\ UNCHANGED pvars
  /\ op = "alt" /\ pc = "loop"
  /\ LET e == cfg.bs[idx]
         r == Apply(e, cur)
         a == alt_parser(r, idx < Len(cfg.bs))
     IN  /\ calls' = Append(calls, Call(e, cur, r))
         /\ IF a.ret
              THEN /\ result' = a.v
                   /\ pc' = "done"
                   /\ idx' = idx
              ELSE /\ idx' = idx + 1
                   /\ UNCHANGED <<result, pc>>
  /\ UNCHANGED <<op, cfg, input, cur, begin, remaining, res, nb, length_token>>

NextAlt == AltStep

SpecAlt == InitAlt /\ [][NextAlt]_vars

----------------------------------------------------------------------------
(* C2: an alternative runs its branches in order, each on the same input,  *)
(* and returns the Done of the first branch that returns Done without      *)
(* running the later ones; an Error or Incomplete branch only moves on;    *)
(* the alternative never returns Incomplete and returns Error when no      *)
(* branch returns Done.                                                    *)

DoneBranches == {j \in 1..Len(cfg.bs) : Apply(cfg.bs[j], input).t = "Done"}

FirstDone == CHOOSE j \in DoneBranches : \A m \in DoneBranches : j <= m

C2_AltFirstDone ==
  op = "alt" =>
    /\ \A j \in 1..Len(calls) :
         /\ calls[j].p = cfg.bs[j]
         /\ calls[j].i = input
         /\ j < Len(calls) => calls[j].r.t \in {"Error", "Incomplete"}
    /\ result.t # "Incomplete"
    /\ pc = "done" =>
         IF DoneBranches = {}
           THEN result.t = "Error" /\ Len(calls) = Len(cfg.bs)
           ELSE /\ Len(calls) = FirstDone
                /\ result = Apply(cfg.bs[FirstDone], input)

C2_Witness ==
  /\ op = "alt" /\ pc = "done"
  /\ Len(cfg.bs) = 3 /\ Len(calls) = 2
  /\ calls[1].r.t = "Incomplete"
  /\ result.t = "Done"

----------------------------------------------------------------------------
(* chain! / chaining_parser!: the steps cfg.steps are run one after the    *)
(* other on the current input.  A step is `$e`, `$e ?`, `$field : $e` or   *)
(* `$field : $e ?`; one action is one arm of chaining_parser!.  The        *)
(* assembling closure is not modelled beyond its arguments: the output of  *)
(* the chain is the sequence of what the steps bound.                      *)

MaxSteps == 3

ChainParsers == {TagP(<<0>>), TagP(<<0, 1>>), DontWork}

Step(p, o, named) == [p |-> p, opt |-> o, named |-> named]

Steps == {Step(p, o, n) : p \in ChainParsers, o \in BOOLEAN, n \in BOOLEAN}

(* The inputs of a chain: the bytes its tags name are enough to make each  *)
(* step match, mismatch or lack input.                                     *)
ChainInputs == UNION {[1..m -> {0, 1}] : m \in 0..MaxLen}

Unbound == [b |-> "unbound"]

Plain(o) == [b |-> "plain", v |-> o]

Next_(i, b) == [ret |-> FALSE, i |-> i, b |-> b]

chaining_parser_skip(s, i, r) ==
  CASE r.t = "Incomplete" -> IF s.opt THEN Next_(i, IF s.named THEN None ELSE Unbound)
                                      ELSE Ret(Incomplete(r.needed))
    [] r.t = "Error" -> IF s.opt
                          THEN Next_(i, IF s.named THEN None ELSE Unbound)
                          ELSE Ret(Error(r.code))
    [] r.t = "Done" -> Next_(r.rem, IF ~s.named THEN Unbound
                                     ELSE IF s.opt THEN Some(r.out)
                                     ELSE Plain(r.out))

chaining_parser(s, i, r) ==
  CASE r.t = "Incomplete" -> Ret(Incomplete(r.needed))
    [] r.t = "Error" -> IF s.opt
                          THEN Next_(i, IF s.named THEN None ELSE Unbound)
                          ELSE Ret(Error(r.code))
    [] r.t = "Done" -> Next_(r.rem, IF ~s.named THEN Unbound
                                     ELSE IF s.opt THEN Some(r.out)
                                     ELSE Plain(r.out))

InitChain ==
  /\ NoPusher
  /\ op = "chain"
  /\ \E n \in 0..MaxSteps : cfg \in [steps : [1..n -> Steps]]
  /\ input \in ChainInputs
  /\ pc = "loop"
  /\ cur = input /\ idx = 1 /\ begin = 0 /\ remaining = 0 /\ res = <<>>
  /\ nb = 0 /\ length_token = 0 /\ calls = <<>> /\ result = NoResult

(* The arms with a parser: lines 178-271.                                  *)
ChainStep ==
  /\ UNCHANGED pvars
  /\ op = "chain" /\ pc = "loop" /\ idx <= Len(cfg.steps)
  /\ LET s == cfg.steps[idx]
         r == Apply(s.p, cur)
         a == chaining_parser(s, cur, r)
     IN  /\ calls' = Append(calls, Call(s, cur, r))
         /\ IF a.ret
              THEN /\ result' = a.v
                   /\ pc' = "done"
                   /\ UNCHANGED <<cur, idx, res>>
              ELSE /\ cur' = a.i
                   /\ res' = Append(res, a.b)
                   /\ idx' = idx + 1
                   /\ IF idx = Len(cfg.steps)
                        THEN result' = Done(a.i, Append(res, a.b)) /\ pc' = "done"
                        ELSE UNCHANGED <<result, pc>>
  /\ UNCHANGED <<op, cfg, input, begin, remaining, nb, length_token>>

(* The arm without a parser, ($i:expr, $assemble:expr): lines 273-275.     *)
ChainAssemble ==
  /\ UNCHANGED pvars
  /\ op = "chain" /\ pc = "loop" /\ Len(cfg.steps) = 0
  /\ result' = Done(cur, res)
  /\ pc' = "done"
  /\ UNCHANGED <<op, cfg, input, cur, idx, begin, remaining, res, nb,
                 length_token, calls>>

NextChain == ChainStep \/ ChainAssemble

SpecChain == InitChain /\ [][NextChain]_vars

----------------------------------------------------------------------------
(* C3: in a chain, a required step returning Error(e) or Incomplete(n)     *)
(* makes the chain return that Error(e) or Incomplete(n); an optional step *)
(* returning Error binds an absent value and the next step runs on the     *)
(* input the optional step was given; an optional step returning           *)
(* Incomplete(n) makes the chain return Incomplete(n); and when every step *)
(* is passed the chain returns Done with the remainder left by the last    *)
(* step that returned Done (the input of the chain when none did).         *)

Passed(c) == c.r.t = "Done" \/ (c.r.t = "Error" /\ c.p.opt)

DoneCalls == {j \in 1..Len(calls) : calls[j].r.t = "Done"}

LastDone == CHOOSE j \in DoneCalls : \A m \in DoneCalls : m <= j

----------------------------------------------------------------------------
(* many0!, many1!, fold0! and fold1!: one action is one turn of the loop,  *)
(* the application of $f on &input[begin..] and the match on its result.   *)
(* A sub-parser that returns Done without consuming leaves begin where it  *)
(* was and the loop goes on; MaxRes bounds the turns the model follows.    *)
(* The folds are given the closure that counts the items, cfg.z is their   *)
(* argument z.                                                             *)

MaxRes == MaxLen + 2

ManyParsers ==
  SubParsers \cup {TagP(<<>>), Work, IsA(<<0>>), OptTag(<<0>>)}

assemble(a, o) == a + 1

many_fail_done(o, b, i, v) == Ret(Done(SliceFrom(i, b), v))

many_fail(o, b, i, v) ==
  IF o = "many1" /\ b = 0
    THEN Ret(Error(0))
    ELSE Ret(Done(SliceFrom(i, b), v))

fold_fail(o, b, i, v) ==
  IF o = "fold1" /\ b = 0
    THEN Ret(Error(0))
    ELSE Ret(Done(SliceFrom(i, b), v))

InitMany ==
  /\ NoPusher
  /\ \/ op \in {"many0", "many1"} /\ cfg \in [f : ManyParsers] /\ res = <<>>
     \/ /\ op \in {"fold0", "fold1"}
        /\ cfg \in [f : ManyParsers, z : 0..1]
        /\ res = cfg.z
  /\ input \in Inputs
  /\ pc = "loop"
  /\ begin = 0
  /\ remaining = Len(input)
  /\ cur = <<>> /\ idx = 0 /\ nb = 0 /\ length_token = 0
  /\ calls = <<>> /\ result = NoResult

ManyStep ==
  /\ UNCHANGED pvars
  /\ op \in {"many0", "many1"} /\ pc = "loop"
  /\ Len(res) < MaxRes
  /\ LET arg == SliceFrom(input, begin)
         r == Apply(cfg.f, arg)
     IN  /\ calls' = Append(calls, Call(cfg.f, arg, r))
         /\ IF r.t = "Done"
              THEN /\ res' = Append(res, r.out)
                   /\ begin' = begin + (remaining - Len(r.rem))
                   /\ remaining' = Len(r.rem)
                   /\ IF begin' >= Len(input)
                        THEN result' = Done(r.rem, res') /\ pc' = "done"
                        ELSE UNCHANGED <<result, pc>>
              ELSE /\ result' = many_fail(op, begin, input, res).v
                   /\ pc' = "done"
                   /\ UNCHANGED <<res, begin, remaining>>
  /\ UNCHANGED <<op, cfg, input, cur, idx, nb, length_token>>

FoldStep ==
  /\ UNCHANGED pvars
  /\ op \in {"fold0", "fold1"} /\ pc = "loop"
  /\ Len(calls) < MaxRes
  /\ LET arg == SliceFrom(input, begin)
         r == Apply(cfg.f, arg)
     IN  /\ calls' = Append(calls, Call(cfg.f, arg, r))
         /\ IF r.t = "Done"
              THEN /\ res' = assemble(res, r.out)
                   /\ begin' = begin + (remaining - Len(r.rem))
                   /\ remaining' = Len(r.rem)
                   /\ IF begin' >= Len(input)
                        THEN result' = Done(r.rem, res') /\ pc' = "done"
                        ELSE UNCHANGED <<result, pc>>
              ELSE /\ result' = fold_fail(op, begin, input, res).v
                   /\ pc' = "done"
                   /\ UNCHANGED <<res, begin, remaining>>
  /\ UNCHANGED <<op, cfg, input, cur, idx, nb, length_token>>

NextMany == ManyStep \/ FoldStep

SpecMany == InitMany /\ [][NextMany]_vars

----------------------------------------------------------------------------
(* C4: with k the number of consecutive successes of p from I before p     *)
(* first returns Error or Incomplete, many0 returns Done(R, [v1..vk]), R   *)
(* the remainder after the k-th success (I and the empty sequence when     *)
(* k = 0); many1 returns the same when k >= 1 and Error when k = 0.        *)

(* The successes of p from i: ok is FALSE when p has not failed after      *)
(* `fuel` successes, that is when no such k exists.                        *)
RECURSIVE Successes(_, _, _)
Successes(p, i, fuel) ==
  LET r == Apply(p, i) IN
  IF r.t # "Done" THEN [ok |-> TRUE, vals |-> <<>>, rem |-> i]
  ELSE IF fuel = 0 THEN [ok |-> FALSE, vals |-> <<>>, rem |-> i]
  ELSE LET t == Successes(p, r.rem, fuel - 1)
       IN  [ok |-> t.ok, vals |-> <<r.out>> \o t.vals, rem |-> t.rem]

C4_ManyCount ==
  (op \in {"many0", "many1"} /\ pc = "done") =>
    LET s == Successes(cfg.f, input, Len(input) + 1)
        k == Len(s.vals)
    IN  s.ok =>
          IF op = "many1" /\ k = 0
            THEN result.t = "Error"
            ELSE result = Done(s.rem, s.vals)

C4_Witness ==
  /\ op = "many1" /\ pc = "done"
  /\ Successes(cfg.f, input, Len(input) + 1).ok
  /\ result.t = "Done" /\ Len(result.out) = 2 /\ Len(result.rem) = 1

----------------------------------------------------------------------------
(* length_value!: the count parser $f, then the element parser $g until    *)
(* res holds nb elements.  cfg.form is "derived" for the macro arm         *)
(* ($f $g) and "fixed" for the arm ($f $g $length).  LVCount is the match  *)
(* on $f(input); one LVLoop is one turn of the loop.                       *)

MaxLVLen == 5

MaxLength == 2

CountParsers == {BeU8, RetInt(2), DontWork}

ElementParsers == {BeU16, TakeP(1), TagP(<<0, 1>>), DontWork, TakeUnknown(2)}

LVConfigs ==
  [f : CountParsers, g : ElementParsers, form : {"derived"}, length : {0}]
    \cup
  [f : CountParsers, g : ElementParsers, form : {"fixed"}, length : 1..MaxLength]

More(v, b, rem) == [ret |-> FALSE, v |-> v, b |-> b, rem |-> rem]

length_value_outstanding(c, i1, lt, n, b, rem, v, r) ==
  CASE r.t = "Done" ->
         LET parsed == rem - Len(r.rem) IN
         IF b + parsed >= Len(i1)
           THEN Ret(Incomplete(Size(lt + (n - Len(v)) *
                      (IF c.form = "fixed" THEN c.length ELSE parsed))))
           ELSE More(Append(v, r.out), b + parsed, Len(r.rem))
    [] r.t = "Error" -> Ret(Error(r.code))
    [] r.t = "Incomplete" ->
         IF r.needed.k = "Unknown"
           THEN Ret(Incomplete(Unknown))
           ELSE Ret(Incomplete(Size(lt +
                      (IF c.form = "fixed" THEN c.length ELSE r.needed.n) *
                      (n - Len(v)))))

length_value_lenient(c, i1, lt, n, b, rem, v, r) ==
  CASE r.t = "Done" ->
         LET parsed == rem - Len(r.rem) IN
         IF b + parsed >= Len(i1)
           THEN Ret(Done(r.rem, Append(v, r.out)))
           ELSE More(Append(v, r.out), b + parsed, Len(r.rem))
    [] r.t = "Error" -> Ret(Done(SliceFrom(i1, b), v))
    [] r.t = "Incomplete" ->
         IF r.needed.k = "Unknown"
           THEN Ret(Incomplete(Unknown))
           ELSE Ret(Incomplete(Size(lt +
                      (IF c.form = "fixed" THEN c.length ELSE r.needed.n) * n)))

(* The match on $g(&i1[begin..]) of one turn: lines 800-817 and 840-857.   *)
length_value(c, i1, lt, n, b, rem, v, r) ==
  CASE r.t = "Done" ->
         LET parsed == rem - Len(r.rem) IN
         IF b + parsed >= Len(i1)
           THEN Ret(Incomplete(Size(lt + n *
                      (IF c.form = "fixed" THEN c.length ELSE parsed))))
           ELSE More(Append(v, r.out), b + parsed, Len(r.rem))
    [] r.t = "Error" -> Ret(Error(r.code))
    [] r.t = "Incomplete" ->
         IF r.needed.k = "Unknown"
           THEN Ret(Incomplete(Unknown))
           ELSE Ret(Incomplete(Size(lt +
                      (IF c.form = "fixed" THEN c.length ELSE r.needed.n) * n)))

InitLV ==
  /\ NoPusher
  /\ op = "length_value"
  /\ cfg \in LVConfigs
  /\ input \in SeqsUpTo(MaxLVLen)
  /\ pc = "start"
  /\ Idle

LVCount ==
  /\ UNCHANGED pvars
  /\ op = "length_value" /\ pc = "start"
  /\ LET r == Apply(cfg.f, input) IN
     CASE r.t = "Error" ->
            /\ result' = Error(r.code) /\ pc' = "done"
            /\ UNCHANGED <<cur, nb, length_token, remaining>>
       [] r.t = "Incomplete" ->
            /\ result' = Incomplete(r.needed) /\ pc' = "done"
            /\ UNCHANGED <<cur, nb, length_token, remaining>>
       [] r.t = "Done" ->
            /\ cur' = r.rem
            /\ nb' = r.out
            /\ length_token' = Len(input) - Len(r.rem)
            /\ remaining' = Len(r.rem)
            /\ pc' = "loop"
            /\ UNCHANGED result
  /\ UNCHANGED <<op, cfg, input, idx, begin, res, calls>>

LVLoop ==
  /\ UNCHANGED pvars
  /\ op = "length_value" /\ pc = "loop"
  /\ IF Len(res) = nb
       THEN /\ result' = Done(SliceFrom(cur, begin), res)
            /\ pc' = "done"
            /\ UNCHANGED <<begin, remaining, res, calls>>
       ELSE LET arg == SliceFrom(cur, begin)
                r == Apply(cfg.g, arg)
                a == length_value(cfg, cur, length_token, nb, begin,
                                  remaining, res, r)
            IN  /\ calls' = Append(calls, Call(cfg.g, arg, r))
                /\ IF a.ret
                     THEN /\ result' = a.v
                          /\ pc' = "done"
                          /\ res' = IF r.t = "Done" THEN Append(res, r.out)
                                                    ELSE res
                          /\ begin' = IF r.t = "Done"
                                        THEN begin + (remaining - Len(r.rem))
                                        ELSE begin
                          /\ remaining' = IF r.t = "Done" THEN Len(r.rem)
                                                          ELSE remaining
                     ELSE /\ res' = a.v
                          /\ begin' = a.b
                          /\ remaining' = a.rem
                          /\ UNCHANGED <<result, pc>>
  /\ UNCHANGED <<op, cfg, input, cur, idx, nb, length_token>>

NextLV == LVCount \/ LVLoop

SpecLV == InitLV /\ [][NextLV]_vars

----------------------------------------------------------------------------
(* What the input holds, read without the loop of length_value!: the       *)
(* elements p yields from i, one after the other, until n are there, the   *)
(* input is used up by an element, or p does not return Done.  `last` is   *)
(* the result that was not Done (NoResult when there is none) and `width`  *)
(* the bytes the last element took.                                        *)

RECURSIVE Elements(_, _, _, _)
Elements(p, i, n, w) ==
  IF n = 0 THEN [vals |-> <<>>, rem |-> i, last |-> NoResult, width |-> w]
  ELSE LET r == Apply(p, i) IN
       IF r.t # "Done"
         THEN [vals |-> <<>>, rem |-> i, last |-> r, width |-> w]
       ELSE IF r.rem = <<>>
         THEN [vals |-> <<r.out>>, rem |-> <<>>, last |-> NoResult,
               width |-> Len(i)]
       ELSE LET t == Elements(p, r.rem, n - 1, Len(i) - Len(r.rem))
            IN  [vals |-> <<r.out>> \o t.vals, rem |-> t.rem,
                 last |-> t.last, width |-> t.width]

Count == Apply(cfg.f, input)

Held == Elements(cfg.g, Count.rem, Count.out, 0)

LVDone == op = "length_value" /\ pc = "done" /\ Count.t = "Done"

(* C5: when the input is a count token encoding N followed by at least N   *)
(* complete elements, length_value returns Done(R, [e1..eN]), R the bytes  *)
(* after the N-th element, also when the input ends right after it.        *)

C5_DoneWithNElements ==
  (LVDone /\ Len(Held.vals) = Count.out) =>
     result = Done(Held.rem, Held.vals)

(* The same with at least one byte after the N-th element: what the code   *)
(* does give.                                                              *)
C5_DoneWhenBytesFollow ==
  (LVDone /\ Len(Held.vals) = Count.out /\ (Held.rem # <<>> \/ Count.out = 0)) =>
     result = Done(Held.rem, Held.vals)

(* C6: when the count parser returned N and consumed length_token bytes    *)
(* and the input runs out before N elements are obtained, the result is    *)
(* Incomplete(Size(length_token + N * L)), L the caller-supplied element   *)
(* size in the fixed form and the Size of the element parser's Incomplete  *)
(* in the other form.                                                      *)

RanOut ==
  /\ LVDone
  /\ Len(Held.vals) < Count.out
  /\ \/ Held.last.t = "Incomplete"
     \/ Held.last.t = "None" /\ Held.rem = <<>> /\ Len(Held.vals) >= 1

LengthToken == Len(input) - Len(Count.rem)

(* The Size the element parser reports where the input ran out.            *)
Reported ==
  IF Held.last.t = "Incomplete" THEN Held.last.needed
                                ELSE Apply(cfg.g, <<>>).needed

HasReported ==
  \/ Held.last.t = "Incomplete"
  \/ Apply(cfg.g, <<>>).t = "Incomplete"

C6_EstimateAsClaimed ==
  RanOut =>
    IF cfg.form = "fixed"
      THEN result = Incomplete(Size(LengthToken + Count.out * cfg.length))
      ELSE (HasReported /\ Reported.k = "Size") =>
             result = Incomplete(Size(LengthToken + Count.out * Reported.n))

(* C6 as amended: the same, except that an element parser whose Incomplete *)
(* is Needed::Unknown makes the result Incomplete(Unknown) in both forms;  *)
(* and in the derived form L is the Size of the element parser's           *)
(* Incomplete or, when the input ended right after an element, the bytes   *)
(* that element took.                                                      *)

C6_Estimate ==
  RanOut =>
    IF Held.last.t = "Incomplete" /\ Held.last.needed.k = "Unknown"
      THEN result = Incomplete(Unknown)
    ELSE IF cfg.form = "fixed"
      THEN result = Incomplete(Size(LengthToken + Count.out * cfg.length))
    ELSE IF Held.last.t = "Incomplete"
      THEN result = Incomplete(Size(LengthToken + Count.out * Held.last.needed.n))
      ELSE result = Incomplete(Size(LengthToken + Count.out * Held.width))

C6_Witness ==
  /\ RanOut
  /\ cfg.f = BeU8 /\ cfg.g = BeU16 /\ cfg.form = "derived"
  /\ Count.out = 2 /\ Len(Held.vals) = 1 /\ Len(input) = 4
  /\ result = Incomplete(Size(5))

(* C7: length_value never returns Done with a number of elements other     *)
(* than the count N of the count parser, and an Error(e) of the element    *)
(* parser on any of its applications makes the result Error(e).            *)

C7_ExactlyN ==
  LVDone =>
    /\ result.t = "Done" => Len(result.out) = Count.out
    /\ Len(calls) <= Count.out
    /\ \A j \in 1..Len(calls) :
         calls[j].r.t = "Error" => result = Error(calls[j].r.code)
    /\ Held.last.t = "Error" => result = Error(Held.last.code)

C7_Witness ==
  /\ LVDone
  /\ Count.out = 2 /\ Len(calls) = 2
  /\ calls[1].r.t = "Done" /\ calls[2].r.t = "Error"
  /\ result.t = "Error"

----------------------------------------------------------------------------
(* The producers of producer.rs.  Produce(p) is the set of the outcomes of *)
(* p.produce(): the ProducerState returned and the producer after it.      *)

MaxChunk == 2

MaxIter == MaxLen + 2

Min(a, b) == IF a < b THEN a ELSE b

Out(st, p) == [st |-> st, p |-> p]

(* MemProducer::new and MemProducer::produce.                              *)

MemProducer(buffer, chunk_size) ==
  [kind |-> "mem", buffer |-> buffer, chunk_size |-> chunk_size,
   length |-> Len(buffer), index |-> 0]

MemProduce_le(p) ==
  IF p.index + p.chunk_size <= p.length
    THEN LET new_index == p.index + p.chunk_size
         IN  Out(Data(Slice(p.buffer, p.index, new_index)),
                 [p EXCEPT !.index = new_index])
  ELSE IF p.index < p.length
    THEN Out(Eof(Slice(p.buffer, p.index, p.length)),
             [p EXCEPT !.index = p.length])
  ELSE Out(ProducerError(0), p)

MemProduce(p) ==
  IF p.index + p.chunk_size < p.length
    THEN LET new_index == p.index + p.chunk_size
         IN  Out(Data(Slice(p.buffer, p.index, new_index)),
                 [p EXCEPT !.index = new_index])
  ELSE IF p.index < p.length
    THEN Out(Eof(Slice(p.buffer, p.index, p.length)),
             [p EXCEPT !.index = p.length])
  ELSE Out(ProducerError(0), p)

(* FileProducer::new and FileProducer::produce.  The file is its content   *)
(* and the position of the handle; a read into the `size` bytes of v       *)
(* fails, or gives at least one byte and at most `size` of what is left,   *)
(* and no byte when nothing is left or size is 0.                          *)

FileProducer(content, buffer_size) ==
  [kind |-> "file", size |-> buffer_size, content |-> content, pos |-> 0]

FileProduce(p) ==
  LET most == Min(p.size, Len(p.content) - p.pos)
      reads == IF most = 0 THEN {0} ELSE 1..most
  IN  {Out(ProducerError(0), p)}
        \cup
      {Out(IF n = 0 THEN Eof(<<>>)
                    ELSE Data(Slice(p.content, p.pos, p.pos + n)),
           [p EXCEPT !.pos = p.pos + n]) : n \in reads}

(* Any other implementation of the trait Producer: produce() may return    *)
(* any ProducerState.                                                      *)

AnyProducer == [kind |-> "any"]

AnyStates ==
  {Data(<<>>), Data(<<0>>), Eof(<<>>), Eof(<<0>>), Continue, ProducerError(0)}

Produce(p) ==
  CASE p.kind = "mem" -> {MemProduce(p)}
    [] p.kind = "file" -> FileProduce(p)
    [] p.kind = "any" -> {Out(st, p) : st \in AnyStates}

Producers ==
  {MemProducer(b, c) : b \in Inputs, c \in 0..MaxChunk}
    \cup {FileProducer(b, c) : b \in Inputs, c \in 0..MaxChunk}
    \cup {AnyProducer}

----------------------------------------------------------------------------
(* pusher!: the loop of the generated function, for the parser cfg.f.  One *)
(* turn is two actions: PusherProduce is produce() and the match on its    *)
(* state, PusherParse is $f on a copy of acc and the match on its result.  *)

TopParsers ==
  {TagP(<<0>>), TagP(<<0, 1>>), TagP(<<0, 1, 2>>), TakeP(2), DontWork, Work,
   Work2}

Break == [brk |-> TRUE]

Keep(a) == [brk |-> FALSE, acc |-> a]

(* match state: lines 217-231.                                             *)
pusher_state(a, st) ==
  CASE st.s = "Data" -> Keep(a \o st.v)
    [] st.s = "Eof" -> IF st.v = <<>> THEN Break ELSE Keep(a \o st.v)
    [] OTHER -> Break

pusher_verdict_drop(a, r) ==
  CASE r.t = "Error" -> Break
    [] r.t = "Incomplete" -> Keep(<<>>)
    [] r.t = "Done" -> Keep(r.rem)

pusher_verdict_noclear(a, r) ==
  CASE r.t = "Error" -> Break
    [] r.t = "Incomplete" -> Keep(a)
    [] r.t = "Done" -> Keep(a \o r.rem)

pusher_verdict_retry(a, r) ==
  CASE r.t = "Error" -> Keep(a)
    [] r.t = "Incomplete" -> Keep(a)
    [] r.t = "Done" -> Keep(r.rem)

(* match $f(v2.as_slice()): lines 235-248.                                 *)
pusher_verdict(a, r) ==
  CASE r.t = "Error" -> Break
    [] r.t = "Incomplete" -> Keep(a)
    [] r.t = "Done" -> Keep(r.rem)

InitPusher ==
  /\ op = "pusher"
  /\ cfg \in [f : TopParsers]
  /\ input = <<>>
  /\ pc = "produce"
  /\ Idle
  /\ producer \in Producers
  /\ acc = <<>> /\ state = NoState /\ verdict = NoResult
  /\ iter = 0 /\ chunks = <<>> /\ discarded = <<>>
  /\ produced = <<>> /\ sought = NoSeek

PusherProduce ==
  /\ op = "pusher" /\ pc = "produce"
  /\ iter < MaxIter
  /\ \E o \in Produce(producer) :
       LET m == pusher_state(acc, o.st) IN
       /\ producer' = o.p
       /\ state' = o.st
       /\ iter' = iter + 1
       /\ IF m.brk
            THEN pc' = "exit" /\ UNCHANGED <<acc, chunks>>
            ELSE /\ acc' = m.acc
                 /\ chunks' = Append(chunks, o.st.v)
                 /\ pc' = "parse"
  /\ UNCHANGED <<op, cfg, input, cur, idx, begin, remaining, res, nb,
                 length_token, calls, result, verdict, discarded, produced,
                 sought>>

PusherParse ==
  /\ op = "pusher" /\ pc = "parse"
  /\ LET v2 == acc
         r == Apply(cfg.f, v2)
         m == pusher_verdict(acc, r)
     IN  /\ calls' = Append(calls, Call(cfg.f, v2, r))
         /\ verdict' = r
         /\ IF m.brk
              THEN pc' = "exit" /\ UNCHANGED <<acc, discarded>>
              ELSE /\ acc' = m.acc
                   /\ pc' = "produce"
                   /\ discarded' =
                        IF r.t = "Done"
                          THEN discarded \o Slice(v2, 0, Len(v2) - Len(r.rem))
                          ELSE discarded
  /\ UNCHANGED <<op, cfg, input, cur, idx, begin, remaining, res, nb,
                 length_token, result, producer, state, iter, chunks, produced,
                 sought>>

NextPusher == PusherProduce \/ PusherParse

SpecPusher == InitPusher /\ [][NextPusher]_vars

----------------------------------------------------------------------------
(* What the history of a pusher run says.                                  *)

RECURSIVE Flatten(_)
Flatten(ss) == IF ss = <<>> THEN <<>> ELSE Head(ss) \o Flatten(Tail(ss))

(* The buffer the j-th invocation of the parser left behind.               *)
After(j) ==
  IF calls[j].r.t = "Done" THEN calls[j].r.rem ELSE calls[j].i

(* The buffer before the chunk of the j-th invocation was appended.        *)
Before(j) == IF j = 1 THEN <<>> ELSE After(j - 1)

Stop(st) ==
  \/ st.s \in {"ProducerError", "Continue"}
  \/ st.s = "Eof" /\ st.v = <<>>

(* C8: for a producer yielding non-empty chunks and then an empty Eof, and *)
(* a parser that returns Incomplete on every proper prefix of their        *)
(* concatenation and Done with empty remainder on the whole, the parser is *)
(* invoked once after each chunk on all bytes accumulated so far, returns  *)
(* Done exactly once, after the last chunk, and the loop exits on the      *)
(* empty Eof with an empty accumulation buffer.                            *)

Scenario ==
  /\ op = "pusher" /\ pc = "exit"
  /\ state = Eof(<<>>)
  /\ Len(chunks) >= 1
  /\ \A j \in 1..Len(chunks) : chunks[j] # <<>>
  /\ LET W == Flatten(chunks) IN
     /\ \A n \in 0..(Len(W) - 1) : Apply(cfg.f, Slice(W, 0, n)).t = "Incomplete"
     /\ Apply(cfg.f, W).t = "Done"
     /\ Apply(cfg.f, W).rem = <<>>

C8_StreamingScenario ==
  Scenario =>
    /\ Len(calls) = Len(chunks)
    /\ \A j \in 1..Len(calls) :
         /\ calls[j].i = Flatten(SubSeq(chunks, 1, j))
         /\ calls[j].r.t = "Done" <=> j = Len(chunks)
    /\ verdict.t = "Done"
    /\ acc = <<>>

C8_Witness ==
  /\ Scenario
  /\ Len(chunks) = 3
  /\ Len(calls) = 3

(* C9: at the start of every turn of the loop the bytes discarded by the   *)
(* earlier Done verdicts followed by the accumulation buffer are the       *)
(* concatenation of the chunks yielded so far, when every Done remainder   *)
(* is a suffix of the parser input; after a Done(rem, _) the buffer is     *)
(* rem, after an Incomplete it is the previous buffer followed by the new  *)
(* chunk.                                                                  *)

IsSuffix(r, i) == Len(r) <= Len(i) /\ SliceFrom(i, Len(i) - Len(r)) = r

SuffixRemainders ==
  \A j \in 1..Len(calls) :
    calls[j].r.t = "Done" => IsSuffix(calls[j].r.rem, calls[j].i)

C9_ByteConservation ==
  (op = "pusher" /\ SuffixRemainders) =>
    /\ pc = "produce" => discarded \o acc = Flatten(chunks)
    /\ \A j \in 1..Len(calls) : calls[j].i = Before(j) \o chunks[j]
    /\ (pc = "produce" /\ calls # <<>>) => acc = After(Len(calls))

C9_Witness ==
  /\ op = "pusher" /\ pc = "produce"
  /\ Len(calls) = 2
  /\ calls[1].r.t = "Incomplete"
  /\ calls[2].r.t = "Done"
  /\ acc # <<>> /\ discarded # <<>>

(* C10: the loop exits if and only if produce() returned an empty Eof, a   *)
(* ProducerError or Continue, or the parser returned Error; after Data or  *)
(* a non-empty Eof and a Done or Incomplete verdict produce() is called    *)
(* again; the parser is not invoked in a turn whose produce() result was a *)
(* stop condition.                                                         *)

C10_Exits ==
  op = "pusher" =>
    /\ pc = "exit" <=> (Stop(state) \/ verdict.t = "Error")
    /\ pc = "parse" => (state.s \in {"Data", "Eof"} /\ ~Stop(state))
    /\ Len(calls) = (IF pc = "parse" \/ Stop(state) THEN iter - 1 ELSE iter)

C10_Again ==
  (op = "pusher" /\ pc = "parse" /\ verdict'.t \in {"Done", "Incomplete"})
     => pc' = "produce"

C10_LoopExit == [](C10_Exits) /\ [][C10_Again]_vars

C10_Witness ==
  /\ op = "pusher" /\ pc = "exit"
  /\ state = Continue
  /\ Len(calls) = 2
  /\ calls[1].r.t = "Incomplete" /\ calls[2].r.t = "Done"

----------------------------------------------------------------------------
(* MemProducer on its own: produce() and seek() called in any order on a   *)
(* producer made by MemProducer::new.  std::io::SeekFrom is the position   *)
(* of a seek; Panicked is the outcome of the panic! of the End arm.        *)

MaxSeek == MaxLen + 1

Start(pos) == [from |-> "Start", pos |-> pos]

Current(offset) == [from |-> "Current", pos |-> offset]

End(pos) == [from |-> "End", pos |-> pos]

SeekFroms ==
  {Start(pos) : pos \in 0..MaxSeek}
    \cup {Current(offset) : offset \in (-MaxSeek)..MaxSeek}
    \cup {End(pos) : pos \in -1..1}

Panicked == [opt |-> "panic"]

Sought(r, p) == [ret |-> r, p |-> p]

(* u64::checked_add and u64::checked_sub.  No sum of the model reaches     *)
(* 2^64; the offsets are far from i64::MIN, so that -offset is defined.    *)

checked_add(a, b) == Some(a + b)

checked_sub(a, b) == IF b > a THEN None ELSE Some(a - b)

(* MemProducer::seek.                                                      *)

MemSeek_floor(p, position) ==
  CASE position.from = "Start" ->
         LET index == IF position.pos > p.length THEN p.length
                                                 ELSE position.pos
         IN  Sought(Some(index), [p EXCEPT !.index = index])
    [] position.from = "Current" ->
         LET offset == position.pos
             next == IF offset >= 0 THEN checked_add(p.index, offset)
                     ELSE IF -offset > p.index THEN Some(0)
                     ELSE checked_sub(p.index, -offset)
         IN  IF next = None
               THEN Sought(None, p)
               ELSE LET index == IF next.v > p.length THEN p.length
                                                      ELSE next.v
                    IN  Sought(Some(index), [p EXCEPT !.index = index])
    [] position.from = "End" -> Sought(Panicked, p)

MemSeek(p, position) ==
  CASE position.from = "Start" ->
         LET index == IF position.pos > p.length THEN p.length
                                                 ELSE position.pos
         IN  Sought(Some(index), [p EXCEPT !.index = index])
    [] position.from = "Current" ->
         LET offset == position.pos
             next == IF offset >= 0 THEN checked_add(p.index, offset)
                                    ELSE checked_sub(p.index, -offset)
         IN  IF next = None
               THEN Sought(None, p)
               ELSE LET index == IF next.v > p.length THEN p.length
                                                      ELSE next.v
                    IN  Sought(Some(index), [p EXCEPT !.index = index])
    [] position.from = "End" -> Sought(Panicked, p)

(* The buffers: two byte values tell the slices of a buffer apart.         *)
Buffers == UNION {[1..m -> {0, 1}] : m \in 0..MaxLen}

MemProducers == {MemProducer(b, c) : b \in Buffers, c \in 0..MaxChunk}

InitMem ==
  /\ op = "mem"
  /\ cfg = <<>>
  /\ input = <<>>
  /\ pc = "ready"
  /\ Idle
  /\ producer \in MemProducers
  /\ acc = <<>> /\ state = NoState /\ verdict = NoResult
  /\ iter = 0 /\ chunks = <<>> /\ discarded = <<>>
  /\ produced = <<>> /\ sought = NoSeek

MemProduceCall ==
  /\ op = "mem" /\ pc = "ready"
  /\ Len(produced) < MaxIter
  /\ LET o == MemProduce(producer) IN
     /\ producer' = o.p
     /\ state' = o.st
     /\ produced' = Append(produced, o.st)
  /\ UNCHANGED <<op, cfg, input, pc, cur, idx, begin, remaining, res, nb,
                 length_token, calls, result, acc, verdict, iter, chunks,
                 discarded, sought>>

MemSeekCall ==
  /\ op = "mem" /\ pc = "ready"
  /\ \E position \in SeekFroms :
       LET o == MemSeek(producer, position) IN
       /\ sought' = [position |-> position, at |-> producer.index,
                     ret |-> o.ret, now |-> o.p.index]
       /\ producer' = o.p
       /\ pc' = IF o.ret = Panicked THEN "panic" ELSE "ready"
       /\ produced' = <<>>
  /\ UNCHANGED <<op, cfg, input, cur, idx, begin, remaining, res, nb,
                 length_token, calls, result, acc, state, verdict, iter,
                 chunks, discarded>>

NextMem == MemProduceCall \/ MemSeekCall

SpecMem == InitMem /\ [][NextMem]_vars

----------------------------------------------------------------------------
(* What the states produced since the cursor was last set say.             *)

(* The bytes of the first j states of `produced`.                          *)
Yielded(j) ==
  Flatten([n \in 1..j |-> IF produced[n].s \in {"Data", "Eof"}
                            THEN produced[n].v ELSE <<>>])

(* Where the cursor was set: each produce() moved it by what it yielded.   *)
Origin == producer.index - Len(Yielded(Len(produced)))

(* C11: for a non-empty buffer, a chunk size c >= 1 and the cursor at 0,   *)
(* the successive produce() calls give Data chunks of exactly c bytes,     *)
(* then one Eof with the final remainder, then ProducerError on every      *)
(* later call; the chunks are consecutive slices of the buffer and the     *)
(* Data chunks followed by the Eof chunk are the whole buffer.             *)

C11_ProduceSequence ==
  (op = "mem" /\ producer.buffer # <<>> /\ producer.chunk_size >= 1
      /\ Origin = 0) =>
    LET B == producer.buffer
        c == producer.chunk_size
        n == Len(produced)
    IN  /\ \A j \in 1..n :
             /\ produced[j].s \in {"Data", "Eof", "ProducerError"}
             /\ produced[j].s = "Data" =>
                  /\ Len(produced[j].v) = c
                  /\ \A k \in 1..(j - 1) : produced[k].s = "Data"
             /\ produced[j].s \in {"Data", "Eof"} =>
                  produced[j].v =
                    [m \in 1..Len(produced[j].v) |-> B[Len(Yielded(j - 1)) + m]]
             /\ produced[j].s = "Eof" =>
                  /\ Yielded(j) = B
                  /\ \A k \in 1..n : k > j => produced[k].s = "ProducerError"
             /\ produced[j].s = "ProducerError" =>
                  \E k \in 1..(j - 1) : produced[k].s = "Eof"
        /\ n >= Len(B) => \E j \in 1..Len(B) : produced[j].s = "Eof"

C11_Witness ==
  /\ op = "mem" /\ Origin = 0 /\ sought = NoSeek
  /\ producer.chunk_size = 1
  /\ Len(produced) = 5
  /\ produced[1].s = "Data" /\ produced[2].s = "Data"
  /\ produced[3].s = "Eof" /\ produced[4].s = "ProducerError"
  /\ produced[5].s = "ProducerError"

(* The kind of the last seek: "Start", "Current", "End", or "none".         *)
From == IF sought = NoSeek THEN "none" ELSE sought.position.from

(* C12: with L the length of the buffer and i the cursor, seek(Start(p))   *)
(* sets the cursor to min(p, L) and returns it; seek(Current(d)) with      *)
(* i + d < 0 returns None and leaves the cursor where it was, and with     *)
(* i + d >= 0 sets the cursor to min(i + d, L) and returns it; the cursor  *)
(* stays within 0..L whatever produce() and seek() calls are made.         *)

C12_Seek ==
  op = "mem" =>
    LET L == producer.length
        i == sought.at
        d == sought.position.pos
    IN  /\ producer.index \in 0..L
        /\ From = "Start" =>
             /\ sought.now = Min(d, L)
             /\ sought.ret = Some(sought.now)
        /\ From = "Current" =>
             IF i + d < 0
               THEN sought.ret = None /\ sought.now = i
               ELSE sought.now = Min(i + d, L) /\ sought.ret = Some(sought.now)

C12_Witness ==
  /\ op = "mem" /\ produced # <<>>
  /\ From = "Current"
  /\ sought.at = 2 /\ sought.position.pos = -3
  /\ sought.ret = None /\ producer.index = 3

(* C13: seek(End(d)) returns a result, the new offset or None, and leaves  *)
(* the producer usable; it does not abort the program.                     *)

C13_SeekEndReturns ==
  (op = "mem" /\ From = "End") =>
    /\ sought.ret # Panicked
    /\ pc = "ready"

----------------------------------------------------------------------------
(* peek!: the function generated for the parser cfg.f; r is the result of  *)
(* $f(input).                                                              *)

peek_consume(r, i) ==
  CASE r.t = "Done" -> Done(r.rem, r.out)
    [] r.t = "Error" -> Error(r.code)
    [] r.t = "Incomplete" -> Incomplete(r.needed)

peek(r, i) ==
  CASE r.t = "Done" -> Done(i, r.out)
    [] r.t = "Error" -> Error(r.code)
    [] r.t = "Incomplete" -> Incomplete(r.needed)

InitPeek ==
  /\ NoPusher
  /\ op = "peek"
  /\ cfg \in [f : SubParsers \cup {TakeP(2), BeU16, TakeUnknown(2)}]
  /\ input \in Inputs
  /\ pc = "start"
  /\ Idle

CallPeek ==
  /\ UNCHANGED pvars
  /\ op = "peek" /\ pc = "start"
  /\ LET r == Apply(cfg.f, input) IN
     /\ calls' = Append(calls, Call(cfg.f, input, r))
     /\ result' = peek(r, input)
  /\ pc' = "done"
  /\ UNCHANGED <<op, cfg, input, cur, idx, begin, remaining, res, nb,
                 length_token>>

NextPeek == CallPeek

SpecPeek == InitPeek /\ [][NextPeek]_vars

(* C14: if p(I) = Done(r, v) then peek(p)(I) = Done(I, v), the whole input *)
(* as remainder; if p(I) = Error(e) then peek(p)(I) = Error(e); if         *)
(* p(I) = Incomplete(n) then peek(p)(I) = Incomplete(n).                   *)

C14_Peek ==
  (op = "peek" /\ pc = "done") =>
    LET r == Apply(cfg.f, input) IN
    /\ calls = <<Call(cfg.f, input, r)>>
    /\ r.t = "Done" =>
         /\ result.t = "Done" /\ result.rem = input /\ result.out = r.out
    /\ r.t = "Error" => result = r
    /\ r.t = "Incomplete" => result = r

C14_Witness ==
  /\ op = "peek" /\ pc = "done"
  /\ calls[1].r.t = "Done" /\ Len(calls[1].r.rem) < Len(input)
  /\ result.t = "Done" /\ result.rem = input /\ Len(input) = 3

----------------------------------------------------------------------------
(* take_until!, take_until_and_leave!, take_until_either! and              *)
(* take_until_either_and_leave!: the functions generated for the bytes     *)
(* `bytes` of $inp.  Each *_loop is `for idx in 0..i.len()` from ix on,    *)
(* with `return Error(0)` after it; each *_match is what is returned at    *)
(* the index ix where the delimiter is found.                              *)

take_until_match_leave(bytes, i, ix) ==
  Done(SliceFrom(i, ix), Slice(i, 0, ix))

take_until_match(bytes, i, ix) ==
  IF ix + Len(bytes) > Len(i)
    THEN Done(<<>>, Slice(i, 0, ix))
    ELSE Done(SliceFrom(i, ix + Len(bytes)), Slice(i, 0, ix))

RECURSIVE take_until_loop(_, _, _)
take_until_loop(bytes, i, ix) ==
  IF ix >= Len(i) THEN Error(0)
  ELSE IF ix + Len(bytes) > Len(i)
    THEN Incomplete(Size(ix + Len(bytes)))
  ELSE IF Slice(i, ix, ix + Len(bytes)) = bytes
    THEN take_until_match(bytes, i, ix)
  ELSE take_until_loop(bytes, i, ix + 1)

take_until(bytes, i) == take_until_loop(bytes, i, 0)

take_until_and_leave_match(bytes, i, ix) ==
  Done(SliceFrom(i, ix), Slice(i, 0, ix))

RECURSIVE take_until_and_leave_loop(_, _, _)
take_until_and_leave_loop(bytes, i, ix) ==
  IF ix >= Len(i) THEN Error(0)
  ELSE IF ix + Len(bytes) > Len(i)
    THEN Incomplete(Size(ix + Len(bytes)))
  ELSE IF Slice(i, ix, ix + Len(bytes)) = bytes
    THEN take_until_and_leave_match(bytes, i, ix)
  ELSE take_until_and_leave_loop(bytes, i, ix + 1)

take_until_and_leave(bytes, i) == take_until_and_leave_loop(bytes, i, 0)

(* `for &t in bytes.iter() { if i[idx] == t`: some byte of bytes is the    *)
(* byte of i at ix.                                                       *)
either(bytes, i, ix) == \E j \in 1..Len(bytes) : i[ix + 1] = bytes[j]

take_until_either_match(bytes, i, ix) ==
  IF ix + 1 > Len(i)
    THEN Done(<<>>, Slice(i, 0, ix))
    ELSE Done(SliceFrom(i, ix + 1), Slice(i, 0, ix))

RECURSIVE take_until_either_loop(_, _, _)
take_until_either_loop(bytes, i, ix) ==
  IF ix >= Len(i) THEN Error(0)
  ELSE IF ix + 1 > Len(i)
    THEN Incomplete(Size(1 + ix))
  ELSE IF either(bytes, i, ix)
    THEN take_until_either_match(bytes, i, ix)
  ELSE take_until_either_loop(bytes, i, ix + 1)

take_until_either(bytes, i) == take_until_either_loop(bytes, i, 0)

take_until_either_and_leave_match(bytes, i, ix) ==
  Done(SliceFrom(i, ix), Slice(i, 0, ix))

RECURSIVE take_until_either_and_leave_loop(_, _, _)
take_until_either_and_leave_loop(bytes, i, ix) ==
  IF ix >= Len(i) THEN Error(0)
  ELSE IF ix + 1 > Len(i)
    THEN Incomplete(Size(1 + ix))
  ELSE IF either(bytes, i, ix)
    THEN take_until_either_and_leave_match(bytes, i, ix)
  ELSE take_until_either_and_leave_loop(bytes, i, ix + 1)

take_until_either_and_leave(bytes, i) ==
  take_until_either_and_leave_loop(bytes, i, 0)

TakeUntils ==
  {"take_until", "take_until_and_leave", "take_until_either",
   "take_until_either_and_leave"}

InitTakeUntil ==
  /\ NoPusher
  /\ op \in TakeUntils
  /\ cfg \in [bytes : SeqsUpTo(MaxTag)]
  /\ input \in Inputs
  /\ pc = "start"
  /\ Idle

CallTakeUntil ==
  /\ UNCHANGED pvars
  /\ op \in TakeUntils /\ pc = "start"
  /\ result' =
       CASE op = "take_until" -> take_until(cfg.bytes, input)
         [] op = "take_until_and_leave" ->
              take_until_and_leave(cfg.bytes, input)
         [] op = "take_until_either" -> take_until_either(cfg.bytes, input)
         [] op = "take_until_either_and_leave" ->
              take_until_either_and_leave(cfg.bytes, input)
  /\ pc' = "done"
  /\ UNCHANGED <<op, cfg, input, cur, idx, begin, remaining, res, nb,
                 length_token, calls>>

NextTakeUntil == CallTakeUntil

SpecTakeUntil == InitTakeUntil /\ [][NextTakeUntil]_vars

----------------------------------------------------------------------------
(* Where the delimiter of a take-until function is in its input.           *)

Literal == op \in {"take_until", "take_until_and_leave"}

Consuming == op \in {"take_until", "take_until_either"}

(* The delimiter is at index k of the input: the literal sequence matches  *)
(* there, or the byte there belongs to the set.                            *)
At(k) ==
  /\ k \in 0..(Len(input) - 1)
  /\ IF Literal
       THEN /\ k + Len(cfg.bytes) <= Len(input)
            /\ \A j \in 1..Len(cfg.bytes) : input[k + j] = cfg.bytes[j]
       ELSE \E j \in 1..Len(cfg.bytes) : input[k + 1] = cfg.bytes[j]

Occurs == \E k \in 0..(Len(input) - 1) : At(k)

First == CHOOSE k \in 0..(Len(input) - 1) : At(k) /\ \A m \in 0..(k - 1) : ~At(m)

(* C15: for each of the four take-until functions and every input, the     *)
(* empty input and one-byte delimiters included, the result is Incomplete  *)
(* with a Size estimate, never Error and never Done, when the delimiter    *)
(* does not occur in the input.                                            *)

C15_NotFoundIncomplete ==
  (op \in TakeUntils /\ pc = "done" /\ ~Occurs) =>
    /\ result.t = "Incomplete"
    /\ result.needed.k = "Size"

(* What the functions do return when the delimiter does not occur: the     *)
(* literal ones give Incomplete(Size(idx + len(delimiter))) at the first   *)
(* idx where the delimiter no longer fits, if there is one before the end  *)
(* of a non-empty input, that is if the delimiter has two bytes or more;   *)
(* every other case is Error(0).                                           *)

C15_NotFoundReturned ==
  (op \in TakeUntils /\ pc = "done" /\ ~Occurs) =>
    LET D == Len(cfg.bytes)
        L == Len(input)
    IN  IF Literal /\ L >= 1 /\ D >= 2
          THEN result = Incomplete(Size(IF D > L THEN D ELSE L + 1))
          ELSE result = Error(0)

(* C18: when the delimiter is in the input, first at index k, each         *)
(* take-until function returns Done with the output I[0..k]; the remainder *)
(* starts right after the delimiter for take_until (I[k + len(D)..]) and   *)
(* take_until_either (I[k + 1..]) and at the delimiter (I[k..]) for the    *)
(* two leave functions; output, consumed delimiter and remainder are I.    *)

C18_Found ==
  (op \in TakeUntils /\ pc = "done" /\ Occurs) =>
    LET k == First
        I == input
        w == IF Literal THEN Len(cfg.bytes) ELSE 1
        delimiter == [j \in 1..w |-> I[k + j]]
    IN  /\ result.t = "Done"
        /\ result.out = [j \in 1..k |-> I[j]]
        /\ Consuming =>
             /\ result.rem = [j \in 1..(Len(I) - k - w) |-> I[k + w + j]]
             /\ result.out \o delimiter \o result.rem = I
        /\ ~Consuming =>
             /\ result.rem = [j \in 1..(Len(I) - k) |-> I[k + j]]
             /\ result.out \o result.rem = I

C18_Witness ==
  /\ op = "take_until" /\ pc = "done" /\ Occurs
  /\ Len(cfg.bytes) = 2 /\ First = 1 /\ Len(input) = 3
  /\ result.t = "Done" /\ Len(result.out) = 1 /\ result.rem = <<>>

----------------------------------------------------------------------------
(* o! / o_parser!: the parsers cfg.steps are applied one after the other,  *)
(* each on what the one before left; v is $o, the output that will be      *)
(* returned.  The first step is $f1 of o!, whose output is the first $o;   *)
(* a later step in brackets replaces $o, one without brackets keeps it.    *)

OParsers == {TagP(<<0>>), TagP(<<0, 1>>), DontWork, RetInt(1)}

OStep(p, bracket) == [p |-> p, bracket |-> bracket]

OSteps == {OStep(p, b) : p \in OParsers, b \in BOOLEAN}

(* match $f1(input) of o!: lines 60-66.                                    *)
o_macro(r) ==
  CASE r.t = "Error" -> Ret(Error(r.code))
    [] r.t = "Incomplete" -> Ret(Incomplete(r.needed))
    [] r.t = "Done" -> Next_(r.rem, r.out)

(* The arms of o_parser!: `last` when no step follows.                     *)
o_parser(s, v, r, last) ==
  CASE r.t = "Error" -> Ret(Error(r.code))
    [] r.t = "Incomplete" -> Ret(Incomplete(r.needed))
    [] r.t = "Done" ->
         IF last
           THEN Ret(Done(r.rem, IF s.bracket THEN r.out ELSE v))
           ELSE Next_(r.rem, IF s.bracket THEN r.out ELSE v)

InitO ==
  /\ NoPusher
  /\ op = "o"
  /\ \E n \in 2..MaxSteps :
       /\ cfg \in [steps : [1..n -> OSteps]]
       /\ ~cfg.steps[1].bracket
  /\ input \in ChainInputs
  /\ pc = "loop"
  /\ cur = input /\ idx = 1 /\ begin = 0 /\ remaining = 0 /\ res = <<>>
  /\ nb = 0 /\ length_token = 0 /\ calls = <<>> /\ result = NoResult

OFirst ==
  /\ UNCHANGED pvars
  /\ op = "o" /\ pc = "loop" /\ idx = 1
  /\ LET s == cfg.steps[1]
         r == Apply(s.p, cur)
         a == o_macro(r)
     IN  /\ calls' = Append(calls, Call(s, cur, r))
         /\ IF a.ret
              THEN /\ result' = a.v
                   /\ pc' = "done"
                   /\ UNCHANGED <<cur, idx, res>>
              ELSE /\ cur' = a.i
                   /\ res' = a.b
                   /\ idx' = 2
                   /\ UNCHANGED <<result, pc>>
  /\ UNCHANGED <<op, cfg, input, begin, remaining, nb, length_token>>

ONext ==
  /\ UNCHANGED pvars
  /\ op = "o" /\ pc = "loop" /\ idx > 1
  /\ LET s == cfg.steps[idx]
         r == Apply(s.p, cur)
         a == o_parser(s, res, r, idx = Len(cfg.steps))
     IN  /\ calls' = Append(calls, Call(s, cur, r))
         /\ IF a.ret
              THEN /\ result' = a.v
                   /\ pc' = "done"
                   /\ UNCHANGED <<cur, idx, res>>
              ELSE /\ cur' = a.i
                   /\ res' = a.b
                   /\ idx' = idx + 1
                   /\ UNCHANGED <<result, pc>>
  /\ UNCHANGED <<op, cfg, input, begin, remaining, nb, length_token>>

NextO == OFirst \/ ONext

SpecO == InitO /\ [][NextO]_vars

----------------------------------------------------------------------------
(* The combinators that are given sub-parsers, side by side: alt!, many0!, *)
(* many1!, fold0!, fold1!, chain!, o!, peek! and length_value!.            *)

InitCombinators ==
  InitAlt \/ InitMany \/ InitChain \/ InitO \/ InitPeek \/ InitLV

NextCombinators ==
  NextAlt \/ NextMany \/ NextChain \/ NextO \/ NextPeek \/ NextLV

SpecCombinators == InitCombinators /\ [][NextCombinators]_vars

(* The applications of the sub-parsers in this invocation; `calls` has     *)
(* them all but the application of the count parser of length_value,       *)
(* which comes first.                                                      *)
Applied ==
  IF op = "length_value" /\ pc # "start"
    THEN <<Call(cfg.f, input, Apply(cfg.f, input))>> \o calls
    ELSE calls

(* The codes of the Errors the sub-parsers returned in this invocation.    *)
SubCodes ==
  {Applied[j].r.code :
     j \in {n \in 1..Len(Applied) : Applied[n].r.t = "Error"}}

Returned(t) == pc = "done" /\ result.t = t

(* C16: whenever alt, many1, fold1, chain, o, peek or length_value returns *)
(* Error(c), c is the code of an Error that one of its sub-parsers         *)
(* returned during that invocation.                                        *)

C16_NoInventedCode ==
  (op \in {"alt", "many1", "fold1", "chain", "o", "peek", "length_value"}
      /\ Returned("Error")) =>
    result.code \in SubCodes

(* C16 as the code has it: chain, o, peek and length_value return the      *)
(* Error their last sub-parser application returned; alt returns Error(1)  *)
(* when none of its branches returned Done, whatever they returned; many1  *)
(* and fold1 return Error(0) when the first application of the sub-parser  *)
(* did not return Done, whatever it returned.                              *)

C16_ErrorCodes ==
  /\ (op \in {"chain", "o", "peek", "length_value"} /\ Returned("Error")) =>
       /\ Applied # <<>>
       /\ Applied[Len(Applied)].r = result
  /\ (op = "alt" /\ pc = "done") =>
       (result = Error(1) <=>
          /\ Len(calls) = Len(cfg.bs)
          /\ \A j \in 1..Len(calls) : calls[j].r.t # "Done")
  /\ (op = "alt" /\ Returned("Error")) => result = Error(1)
  /\ (op \in {"many1", "fold1"} /\ pc = "done") =>
       (result = Error(0) <=> (Len(calls) = 1 /\ calls[1].r.t # "Done"))
  /\ (op \in {"many1", "fold1"} /\ Returned("Error")) => result = Error(0)
  /\ op \in {"many0", "fold0"} => ~Returned("Error")

C16_Witness ==
  /\ op = "alt" /\ pc = "done"
  /\ Len(calls) = 2
  /\ calls[1].r = Error(3) /\ calls[2].r = Error(3)
  /\ result = Error(1)

----------------------------------------------------------------------------
(* A parser that reported Incomplete(Size(n)) on `input`, called again on  *)
(* `input` followed by at least n more bytes `cur`.  The parsers are tag!, *)
(* take! and length_value! over elements of a fixed width; `result` is the *)
(* first result and `res` the second.                                      *)

(* The function length_value! generates, from its call to its return: the  *)
(* match on $f(input), then the turns of the loop.                         *)

RECURSIVE length_value_loop(_, _, _, _, _, _, _)
length_value_loop(c, i1, lt, n, b, rem, v) ==
  IF Len(v) = n
    THEN Done(SliceFrom(i1, b), v)
    ELSE LET r == Apply(c.g, SliceFrom(i1, b))
             a == length_value(c, i1, lt, n, b, rem, v, r)
         IN  IF a.ret THEN a.v
                      ELSE length_value_loop(c, i1, lt, n, a.b, a.rem, a.v)

length_value_fn(c, i) ==
  LET r == Apply(c.f, i) IN
  CASE r.t = "Error" -> Error(r.code)
    [] r.t = "Incomplete" -> Incomplete(r.needed)
    [] r.t = "Done" ->
         length_value_loop(c, r.rem, Len(i) - Len(r.rem), r.out, 0,
                           Len(r.rem), <<>>)

LengthValue(c) == [k |-> "length_value", c |-> c]

Run(p, i) == IF p.k = "length_value" THEN length_value_fn(p.c, i) ELSE Apply(p, i)

(* Element parsers of a fixed width, with that width.                      *)
FixedWidth == {<<BeU16, 2>>, <<TakeP(1), 1>>, <<TagP(<<0, 1>>), 2>>}

EstimateParsers ==
  {TagP(e) : e \in SeqsUpTo(MaxTag)}
    \cup {TakeP(n) : n \in 0..MaxTag}
    \cup {LengthValue([f |-> f, g |-> gw[1], form |-> "derived", length |-> 0]) :
            f \in {BeU8, RetInt(2)}, gw \in FixedWidth}
    \cup {LengthValue([f |-> f, g |-> gw[1], form |-> "fixed", length |-> gw[2]]) :
            f \in {BeU8, RetInt(2)}, gw \in FixedWidth}

(* The bytes that follow: enough values to match and to miss a tag.        *)
More01(n) == UNION {[1..m -> {0, 1}] : m \in n..(n + 1)}

InitEstimate ==
  /\ NoPusher
  /\ op = "estimate"
  /\ cfg \in EstimateParsers
  /\ input \in Inputs
  /\ pc = "start"
  /\ Idle

EstimateFirst ==
  /\ UNCHANGED pvars
  /\ op = "estimate" /\ pc = "start"
  /\ result' = Run(cfg, input)
  /\ pc' = "first"
  /\ UNCHANGED <<op, cfg, input, cur, idx, begin, remaining, res, nb,
                 length_token, calls>>

EstimateAgain ==
  /\ UNCHANGED pvars
  /\ op = "estimate" /\ pc = "first"
  /\ result.t = "Incomplete" /\ result.needed.k = "Size"
  /\ \E X \in More01(result.needed.n) :
       /\ cur' = X
       /\ res' = Run(cfg, input \o X)
  /\ pc' = "done"
  /\ UNCHANGED <<op, cfg, input, idx, begin, remaining, nb, length_token,
                 calls, result>>

NextEstimate == EstimateFirst \/ EstimateAgain

SpecEstimate == InitEstimate /\ [][NextEstimate]_vars

(* The input holds the count token of a length_value function: its count   *)
(* parser returns Done on it having consumed at least one byte.            *)
HoldsCount ==
  LET r == Apply(cfg.c.f, input) IN
  r.t = "Done" /\ Len(r.rem) < Len(input)

(* C17: if tag, take or length_value over fixed-width elements returns     *)
(* Incomplete(Size(n)) on I (I holding the count token, for length_value), *)
(* then on I followed by any X of at least n bytes the same parser does    *)
(* not return Incomplete.                                                  *)

C17_NoUnderPromise ==
  (op = "estimate" /\ pc = "done"
      /\ (cfg.k = "length_value" => HoldsCount)) =>
    /\ Len(cur) >= result.needed.n
    /\ res = Run(cfg, input \o cur)
    /\ res.t # "Incomplete"

C17_Witness ==
  /\ op = "estimate" /\ pc = "done"
  /\ cfg.k = "length_value" /\ HoldsCount
  /\ cfg.c.f = BeU8 /\ cfg.c.g = BeU16 /\ cfg.c.form = "derived"
  /\ input = <<2, 0>>
  /\ result = Incomplete(Size(5)) /\ Len(cur) = 5
  /\ res.t = "Done" /\ Len(res.out) = 2

(* The function of length_value_fn is the function LVCount and LVLoop      *)
(* step through.                                                           *)
LengthValueSteps ==
  (op = "length_value" /\ pc = "done") => result = length_value_fn(cfg, input)

----------------------------------------------------------------------------
(* Termination of the loops.  The sub-parser is a function of its input    *)
(* and a turn of many0, many1, fold0 or fold1 that does not return leaves  *)
(* begin below len(input): such a loop returns exactly if each turn that   *)
(* does not return moves begin forward, and then it has returned after     *)
(* len(input) + 1 applications of the sub-parser at most.                  *)

(* A loop that is running takes its next turn.                             *)

SpecManyFair == SpecMany /\ WF_vars(NextMany)

SpecPusherFair == SpecPusher /\ WF_vars(NextPusher)

Repetitions == {"many0", "many1", "fold0", "fold1"}

(* Every Done of the sub-parser so far consumed a byte or more.            *)
Consumed ==
  \A j \in 1..Len(calls) :
    calls[j].r.t = "Done" => Len(calls[j].r.rem) < Len(calls[j].i)

(* C19: many0, many1, fold0 and fold1 terminate on every finite input with *)
(* every deterministic sub-parser, one that can return Done without        *)
(* consuming a byte included: the loop has returned after len(input) + 1   *)
(* applications of the sub-parser at most.                                 *)

C19_Terminates ==
  op \in Repetitions =>
    /\ Len(calls) <= Len(input) + 1
    /\ Len(calls) = Len(input) + 1 => pc = "done"

(* What does hold: the loops return within that bound as long as each Done *)
(* of the sub-parser consumed a byte or more.                              *)

C19_TerminatesWhenConsuming ==
  (op \in Repetitions /\ Consumed) =>
    /\ Len(calls) <= Len(input) + 1
    /\ Len(calls) = Len(input) + 1 => pc = "done"

(* C20: the pusher loop on a MemProducer terminates for every buffer, the  *)
(* empty one included, every chunk size, 0 included, and every parser that *)
(* returns: the loop has stopped after a number of produce() calls bounded *)
(* by the length of the buffer, one call for each byte and the call that   *)
(* gives ProducerError at most.                                            *)

C20_Terminates ==
  (op = "pusher" /\ producer.kind = "mem") =>
    /\ iter <= producer.length + 1
    /\ iter = producer.length + 1 => pc # "produce"

(* What does hold: the same for the chunk sizes other than 0.              *)

C20_TerminatesWhenChunked ==
  (op = "pusher" /\ producer.kind = "mem" /\ producer.chunk_size >= 1) =>
    /\ iter <= producer.length + 1
    /\ iter = producer.length + 1 => pc # "produce"

====
